---- MODULE Spec2Model ----
(***************************************************************************)
(* Password_Analyzer_and_Generator/password_analyzer.py                    *)
(*                                                                         *)
(* A password is a sequence of one-character strings.  Entropy is kept in  *)
(* hundredths of a bit (the code rounds to two decimals), so 80.0 bits is  *)
(* 8000.                                                                   *)
(***************************************************************************)
EXTENDS Integers, Sequences, FiniteSets

VARIABLES pc, password, blacklist, result, frame, genArgs, generated, first, calls

vars == <<pc, password, blacklist, result, frame, genArgs, generated, first, calls>>

(***************************************************************************)
(* Bounds of the explored input space.                                     *)
(***************************************************************************)
MaxPieces == 3
MaxTime == 1
MaxGenLen == 2
MaxNegLen == 1
MaxBetweenGenLen == 0

(***************************************************************************)
(* Character data: string.ascii_lowercase, string.ascii_uppercase,         *)
(* string.digits and the generator's symbol literal.                       *)
(***************************************************************************)
ascii_lowercase ==
    <<"a","b","c","d","e","f","g","h","i","j","k","l","m",
      "n","o","p","q","r","s","t","u","v","w","x","y","z">>

ascii_uppercase ==
    <<"A","B","C","D","E","F","G","H","I","J","K","L","M",
      "N","O","P","Q","R","S","T","U","V","W","X","Y","Z">>

digits ==
    <<"0","1","2","3","4","5","6","7","8","9">>

GEN_SYMBOLS ==
    <<"!","@","#","$","%","^","&","*","(",")","-","_","=",
      "+","[","]","{","}",";",":",",",".","<",">","/","?">>

Range(s) == {s[i] : i \in DOMAIN s}

LowerChars == Range(ascii_lowercase)

UpperChars == Range(ascii_uppercase)

DigitChars == Range(digits)

\* the complement class [^a-zA-Z0-9] is every character outside this set
AlnumChars == LowerChars \cup UpperChars \cup DigitChars

\* the letter at the same alphabet position, for the upper-case letters
LowerOf == [c \in UpperChars |-> ascii_lowercase[CHOOSE i \in DOMAIN ascii_uppercase : ascii_uppercase[i] = c]]

\* str.lower() on one ASCII character
lower_char(c) ==
    IF c \in UpperChars THEN LowerOf[c] ELSE c

\* str.lower()
lower(s) == [i \in 1..Len(s) |-> lower_char(s[i])]

\* the Python operator `p in s` on strings: p occurs as a contiguous slice
Contains(s, p) ==
    \E i \in 0..(Len(s) - Len(p)) :
        \A j \in 1..Len(p) : s[i + j] = p[j]

(***************************************************************************)
(* Character classes of the four regular expressions.                      *)
(***************************************************************************)
HasLower(p) == \E i \in DOMAIN p : p[i] \in LowerChars

HasUpper(p) == \E i \in DOMAIN p : p[i] \in UpperChars

HasDigit(p) == \E i \in DOMAIN p : p[i] \in DigitChars

HasSymbolAlways(p) == TRUE

HasSymbol(p) ==
    \E i \in DOMAIN p : p[i] \notin AlnumChars

(***************************************************************************)
(* calculate_entropy                                                       *)
(***************************************************************************)
PoolSize(p) ==
      (IF HasLower(p) THEN 26 ELSE 0)
    + (IF HasUpper(p) THEN 26 ELSE 0)
    + (IF HasDigit(p) THEN 10 ELSE 0)
    + (IF HasSymbol(p) THEN 32 ELSE 0)

\* math.log2(pool) in millionths of a bit, for the pools the four weights can sum to
Log2Micro(pool) ==
    CASE pool = 10 -> 3321928
      [] pool = 26 -> 4700439
      [] pool = 32 -> 5000000
      [] pool = 36 -> 5169925
      [] pool = 42 -> 5392317
      [] pool = 52 -> 5700439
      [] pool = 58 -> 5857980
      [] pool = 62 -> 5954196
      [] pool = 68 -> 6087462
      [] pool = 84 -> 6392317
      [] pool = 94 -> 6554588

\* round(x, 2) of a value in millionths, as hundredths
Round2(micro) == (micro + 5000) \div 10000

calculate_entropy(p) ==
    LET pool == PoolSize(p) IN
    IF pool = 0 \/ Len(p) = 0
    THEN 0
    ELSE Round2(Len(p) * Log2Micro(pool))

(***************************************************************************)
(* has_repeated_sequence: re.search(r"(.)\1\1", pwd).  The dot matches any *)
(* character except a line feed.                                           *)
(***************************************************************************)
DotMatches(c) == c # "\n"

has_repeated_sequence(pwd) ==
    \E i \in 1..(Len(pwd) - 2) :
        /\ DotMatches(pwd[i])
        /\ pwd[i + 1] = pwd[i]
        /\ pwd[i + 2] = pwd[i]

(***************************************************************************)
(* is_keyboard_pattern                                                     *)
(***************************************************************************)
patterns ==
    << <<"q","w","e","r","t","y">>,
       <<"a","s","d","f">>,
       <<"1","2","3","4">>,
       <<"p","a","s","s","w","o","r","d">>,
       <<"a","b","c","d">>,
       <<"1","1","1","1">> >>

is_keyboard_pattern(pwd) ==
    LET lowered == lower(pwd) IN
    \E k \in DOMAIN patterns : Contains(lowered, patterns[k])

(***************************************************************************)
(* check_strength                                                          *)
(***************************************************************************)
None == [present |-> FALSE, items |-> {}]

BlacklistSet(items) == [present |-> TRUE, items |-> items]

length_points_if(p) ==
      (IF Len(p) >= 16 THEN 3 ELSE 0)
    + (IF Len(p) >= 12 THEN 2 ELSE 0)
    + (IF Len(p) >= 8 THEN 1 ELSE 0)

\* the if / elif / elif chain of the length scoring
length_points(p) ==
    IF Len(p) >= 16 THEN 3
    ELSE IF Len(p) >= 12 THEN 2
    ELSE IF Len(p) >= 8 THEN 1
    ELSE 0

length_remarks(p) ==
    IF Len(p) >= 8 THEN <<>> ELSE <<"Too short (min 8 chars)">>

variety_points(p) ==
      (IF HasLower(p) THEN 1 ELSE 0)
    + (IF HasUpper(p) THEN 1 ELSE 0)
    + (IF HasDigit(p) THEN 1 ELSE 0)
    + (IF HasSymbol(p) THEN 1 ELSE 0)

variety_remarks(p) ==
       (IF HasLower(p) THEN <<>> ELSE <<"Add lowercase letters">>)
    \o (IF HasUpper(p) THEN <<>> ELSE <<"Add uppercase letters">>)
    \o (IF HasDigit(p) THEN <<>> ELSE <<"Add digits">>)
    \o (IF HasSymbol(p) THEN <<>> ELSE <<"Add symbols (!, @, #, etc.)">>)

penalty_points(p) ==
      (IF has_repeated_sequence(p) THEN 1 ELSE 0)
    + (IF is_keyboard_pattern(p) THEN 1 ELSE 0)

penalty_remarks_swapped(p) ==
       (IF is_keyboard_pattern(p)
        THEN <<"Contains common pattern (qwerty/1234)">> ELSE <<>>)
    \o (IF has_repeated_sequence(p)
        THEN <<"Contains repeated characters">> ELSE <<>>)

penalty_remarks(p) ==
       (IF has_repeated_sequence(p)
        THEN <<"Contains repeated characters">> ELSE <<>>)
    \o (IF is_keyboard_pattern(p)
        THEN <<"Contains common pattern (qwerty/1234)">> ELSE <<>>)

is_blacklisted_exact(p, B) == B.present /\ p \in B.items

\* blacklist is not None and password.lower() in blacklist
is_blacklisted(p, B) == B.present /\ lower(p) \in B.items

blacklist_remarks(p, B) ==
    IF is_blacklisted(p, B)
    THEN <<"Found in common-password blacklist">> ELSE <<>>

\* the score after the blacklist step, before the two clamping tests
raw_score(p, B) ==
      length_points(p) + variety_points(p) - penalty_points(p)
    - (IF is_blacklisted(p, B) THEN 2 ELSE 0)

remarks_of(p, B) ==
       length_remarks(p) \o variety_remarks(p)
    \o penalty_remarks(p) \o blacklist_remarks(p, B)

clamp_upper_only(s) == IF s > 8 THEN 8 ELSE s

clamp(s) ==
    LET low == IF s < 0 THEN 0 ELSE s IN
    IF low > 8 THEN 8 ELSE low

classify_level_or(entropy, score, blacklisted) ==
    IF blacklisted THEN "Very Weak"
    ELSE IF entropy >= 8000 \/ score >= 6 THEN "Strong"
    ELSE IF entropy >= 5000 /\ score >= 4 THEN "Medium"
    ELSE "Weak"

classify_level(entropy, score, blacklisted) ==
    IF blacklisted THEN "Very Weak"
    ELSE IF entropy >= 8000 /\ score >= 6 THEN "Strong"
    ELSE IF entropy >= 5000 /\ score >= 4 THEN "Medium"
    ELSE "Weak"

\* a remarks list that outlives the call (a shared default) instead of a fresh one
check_strength_shared_remarks(p, B, now) ==
    LET entropy == calculate_entropy(p)
        score == clamp(raw_score(p, B))
    IN [password |-> p,
        length |-> Len(p),
        entropy |-> entropy,
        score |-> score,
        level |-> classify_level(entropy, score, is_blacklisted(p, B)),
        remarks |-> result.remarks \o remarks_of(p, B),
        timestamp |-> now]

\* the dict check_strength returns
check_strength(p, B, now) ==
    LET entropy == calculate_entropy(p)
        score == clamp(raw_score(p, B))
    IN [password |-> p,
        length |-> Len(p),
        entropy |-> entropy,
        score |-> score,
        level |-> classify_level(entropy, score, is_blacklisted(p, B)),
        remarks |-> remarks_of(p, B),
        timestamp |-> now]

\* the locals of check_strength that the dict does not carry
check_strength_locals(p, B) ==
    [raw |-> raw_score(p, B), blacklisted |-> is_blacklisted(p, B)]

(***************************************************************************)
(* generate_password                                                       *)
(***************************************************************************)
build_charset_digits_always(use_upper, use_digits, use_symbols) ==
       ascii_lowercase
    \o (IF use_upper THEN ascii_uppercase ELSE <<>>)
    \o digits
    \o (IF use_symbols THEN GEN_SYMBOLS ELSE <<>>)

build_charset(use_upper, use_digits, use_symbols) ==
       ascii_lowercase
    \o (IF use_upper THEN ascii_uppercase ELSE <<>>)
    \o (IF use_digits THEN digits ELSE <<>>)
    \o (IF use_symbols THEN GEN_SYMBOLS ELSE <<>>)

range_len_abs(length) == IF length < 0 THEN 0 - length ELSE length

\* the number of iterations of range(length)
range_len(length) == IF length < 0 THEN 0 ELSE length

\* ''.join(secrets.choice(charset) for _ in range(length)), draws[i] being the
\* index the secure random source picks at iteration i
generate_password(args, draws) ==
    LET charset == build_charset(args.use_upper, args.use_digits, args.use_symbols)
    IN [i \in 1..range_len(args.length) |-> charset[draws[i]]]

DrawsFor(args) ==
    [1..range_len(args.length) ->
        1..Len(build_charset(args.use_upper, args.use_digits, args.use_symbols))]

(***************************************************************************)
(* Inputs.                                                                 *)
(***************************************************************************)
Pieces ==
    { <<"a">>, <<"B">>, <<"7">>, <<"\n">>,
      <<"Q","w","e","r","t","y">>,
      <<"a","s","d","f">>,
      <<"1","2","3","4">>,
      <<"P","a","s","s","W","o","r","d">>,
      <<"1","1","1","1">>,
      <<"x","Y","z","W","k","M","p","R">>,
      <<"5","#","8","&","2","%","9","@">> }

RECURSIVE PieceConcats(_)
PieceConcats(k) ==
    IF k = 0 THEN {<<>>}
    ELSE LET S == PieceConcats(k - 1)
         IN S \cup {s \o q : s \in S, q \in Pieces}

Passwords == PieceConcats(MaxPieces)

Blacklists ==
    { None,
      BlacklistSet({}),
      BlacklistSet({ <<"p","a","s","s","w","o","r","d">>, <<"1","1","1","1">>,
                     <<"x","y","z","w","k","m","p","r","5","#","8","&","2","%","9","@">> }),
      BlacklistSet({ <<>>, <<"a">>, <<"q","w","e","r","t","y">> }) }

Times == 0..MaxTime

NoResult ==
    [password |-> <<>>, length |-> 0, entropy |-> 0, score |-> 0,
     level |-> "None", remarks |-> <<>>, timestamp |-> 0]

NoLocals == [raw |-> 0, blacklisted |-> FALSE]

NoArgs == [length |-> 0, use_upper |-> FALSE, use_digits |-> FALSE, use_symbols |-> FALSE]

GenArgs(lo, hi) ==
    [length : lo..hi, use_upper : BOOLEAN, use_digits : BOOLEAN, use_symbols : BOOLEAN]

(***************************************************************************)
(* Spec: one check_strength call on an arbitrary (password, blacklist).    *)
(***************************************************************************)
Init ==
    /\ pc = "call"
    /\ password \in Passwords
    /\ blacklist \in Blacklists
    /\ result = NoResult
    /\ frame = NoLocals
    /\ genArgs = NoArgs
    /\ generated = <<>>
    /\ first = NoResult
    /\ calls = 0

CheckStrengthCall ==
    /\ pc = "call"
    /\ \E now \in Times : result' = check_strength(password, blacklist, now)
    /\ frame' = check_strength_locals(password, blacklist)
    /\ pc' = "done"
    /\ calls' = calls + 1
    /\ UNCHANGED <<password, blacklist, genArgs, generated, first>>

Next == CheckStrengthCall

Spec == Init /\ [][Next]_vars

(***************************************************************************)
(* SpecGen: one generate_password call.                                    *)
(***************************************************************************)
InitGen ==
    /\ pc = "call"
    /\ password = <<>>
    /\ blacklist = None
    /\ result = NoResult
    /\ frame = NoLocals
    /\ genArgs \in GenArgs(0 - MaxNegLen, MaxGenLen)
    /\ generated = <<>>
    /\ first = NoResult
    /\ calls = 0

GeneratePasswordCall ==
    /\ pc = "call"
    /\ \E draws \in DrawsFor(genArgs) : generated' = generate_password(genArgs, draws)
    /\ pc' = "returned"
    /\ calls' = calls + 1
    /\ UNCHANGED <<password, blacklist, result, frame, genArgs, first>>

NextGen == GeneratePasswordCall

SpecGen == InitGen /\ [][NextGen]_vars

(***************************************************************************)
(* SpecHist: check_strength(password, blacklist) is called, then at most   *)
(* one other call is made (check_strength on another password, or          *)
(* generate_password), then check_strength(password, blacklist) is called  *)
(* again on the same blacklist object.  first keeps the first call's dict. *)
(***************************************************************************)
HistPasswords == PieceConcats(1)

InitHist ==
    /\ pc = "first"
    /\ password \in HistPasswords
    /\ blacklist \in Blacklists
    /\ result = NoResult
    /\ frame = NoLocals
    /\ genArgs = NoArgs
    /\ generated = <<>>
    /\ first = NoResult
    /\ calls = 0

FirstCall ==
    /\ pc = "first"
    /\ \E now \in Times : result' = check_strength(password, blacklist, now)
    /\ first' = result'
    /\ frame' = check_strength_locals(password, blacklist)
    /\ pc' = "between"
    /\ calls' = calls + 1
    /\ UNCHANGED <<password, blacklist, genArgs, generated>>

OtherCheckStrength ==
    /\ pc = "between"
    /\ \E q \in HistPasswords, now \in Times :
          /\ result' = check_strength(q, blacklist, now)
          /\ frame' = check_strength_locals(q, blacklist)
    /\ pc' = "again"
    /\ calls' = calls + 1
    /\ UNCHANGED <<password, blacklist, genArgs, generated, first>>

OtherGeneratePassword ==
    /\ pc = "between"
    /\ \E args \in GenArgs(0, MaxBetweenGenLen) :
          \E draws \in DrawsFor(args) :
              /\ genArgs' = args
              /\ generated' = generate_password(args, draws)
    /\ pc' = "again"
    /\ calls' = calls + 1
    /\ UNCHANGED <<password, blacklist, result, frame, first>>

SecondCall ==
    /\ pc \in {"between", "again"}
    /\ \E now \in Times : result' = check_strength(password, blacklist, now)
    /\ frame' = check_strength_locals(password, blacklist)
    /\ pc' = "done"
    /\ calls' = calls + 1
    /\ UNCHANGED <<password, blacklist, genArgs, generated, first>>

NextHist ==
    \/ FirstCall
    \/ OtherCheckStrength
    \/ OtherGeneratePassword
    \/ SecondCall

SpecHist == InitHist /\ [][NextHist]_vars

(***************************************************************************)
(* Properties.                                                             *)
(***************************************************************************)
HasRemark(r) == \E i \in DOMAIN result.remarks : result.remarks[i] = r

CountRemark(r) == Cardinality({i \in DOMAIN result.remarks : result.remarks[i] = r})

\* C1: for every password and every blacklist (absent, empty or non-empty)
\* the score check_strength returns is an integer between 0 and 8.
C1_ScoreInRange ==
    pc = "done" => result.score \in 0..8

C1_Witness ==
    /\ pc = "done"
    /\ frame.raw < 0
    /\ result.score = 0

\* C2: the level is the first match of: blacklisted -> "Very Weak";
\* entropy >= 80 and score >= 6 -> "Strong"; entropy >= 50 and score >= 4 ->
\* "Medium"; otherwise "Weak".  No other level exists, and "Strong" never
\* comes with score < 6 or entropy < 80.
C2_LevelPriority ==
    pc = "done" =>
        /\ result.level \in {"Very Weak", "Strong", "Medium", "Weak"}
        /\ (result.level = "Very Weak") <=> frame.blacklisted
        /\ (result.level = "Strong") <=>
              (~frame.blacklisted /\ result.entropy >= 8000 /\ result.score >= 6)
        /\ (result.level = "Medium") <=>
              /\ ~frame.blacklisted
              /\ ~(result.entropy >= 8000 /\ result.score >= 6)
              /\ result.entropy >= 5000
              /\ result.score >= 4
        /\ (result.level = "Strong") => (result.score >= 6 /\ result.entropy >= 8000)

C2_Witness ==
    /\ pc = "done"
    /\ result.level = "Medium"
    /\ result.entropy >= 8000
    /\ result.score < 6

\* C3: with a blacklist of lowercase strings, the password is treated as
\* blacklisted (remark present, level "Very Weak") exactly when its lowercased
\* form is in the blacklist, whatever its letter case; with the blacklist
\* absent or the lowercased password not in it, the remark is absent and the
\* level is not "Very Weak".
C3_BlacklistCaseInsensitive ==
    pc = "done" =>
        LET hit == blacklist.present /\ lower(password) \in blacklist.items IN
        /\ HasRemark("Found in common-password blacklist") <=> hit
        /\ (result.level = "Very Weak") <=> hit

C3_Witness ==
    /\ pc = "done"
    /\ lower(password) # password
    /\ HasRemark("Found in common-password blacklist")
    /\ result.level = "Very Weak"

\* C6: the empty password, with the blacklist absent or not holding the empty
\* string, gives length 0, entropy 0.0, score 0 with no points at all, the five
\* remarks "Too short", "Add lowercase", "Add uppercase", "Add digits",
\* "Add symbols" in that order, and level "Weak".
C6_EmptyPassword ==
    (pc = "done" /\ password = <<>> /\ ~(blacklist.present /\ <<>> \in blacklist.items)) =>
        /\ result.length = 0
        /\ result.entropy = 0
        /\ result.score = 0
        /\ frame.raw = 0
        /\ result.remarks = <<"Too short (min 8 chars)", "Add lowercase letters",
                              "Add uppercase letters", "Add digits",
                              "Add symbols (!, @, #, etc.)">>
        /\ result.level = "Weak"

C6_Witness ==
    /\ pc = "done"
    /\ password = <<>>
    /\ blacklist.present
    /\ blacklist.items # {}
    /\ <<>> \notin blacklist.items
    /\ Len(result.remarks) = 5

RemarkOrder ==
    <<"Too short (min 8 chars)", "Add lowercase letters", "Add uppercase letters",
      "Add digits", "Add symbols (!, @, #, etc.)", "Contains repeated characters",
      "Contains common pattern (qwerty/1234)", "Found in common-password blacklist">>

RemarkCondition(r) ==
    CASE r = "Too short (min 8 chars)" -> Len(password) < 8
      [] r = "Add lowercase letters" -> ~HasLower(password)
      [] r = "Add uppercase letters" -> ~HasUpper(password)
      [] r = "Add digits" -> ~HasDigit(password)
      [] r = "Add symbols (!, @, #, etc.)" -> ~HasSymbol(password)
      [] r = "Contains repeated characters" -> has_repeated_sequence(password)
      [] r = "Contains common pattern (qwerty/1234)" -> is_keyboard_pattern(password)
      [] r = "Found in common-password blacklist" -> frame.blacklisted

\* C8: the remarks list is a subsequence of the fixed order of the eight
\* remarks; each remark appears at most once, and exactly when its condition
\* holds (length < 8; class absent; repeated check fires; keyboard check fires;
\* blacklisted).
C8_RemarksOrdered ==
    pc = "done" =>
        /\ result.remarks = SelectSeq(RemarkOrder, RemarkCondition)
        /\ \A k \in DOMAIN RemarkOrder : CountRemark(RemarkOrder[k]) <= 1

C8_Witness ==
    /\ pc = "done"
    /\ HasRemark("Contains repeated characters")
    /\ HasRemark("Contains common pattern (qwerty/1234)")
    /\ HasRemark("Found in common-password blacklist")
    /\ ~HasRemark("Add digits")

HasTriple(p) ==
    \E i \in 1..(Len(p) - 2) : p[i] = p[i + 1] /\ p[i + 1] = p[i + 2]

\* C9: over every character, line breaks included, has_repeated_sequence is
\* true exactly when some position i has p[i] = p[i+1] = p[i+2]; whenever that
\* holds check_strength appends "Contains repeated characters" and takes 1
\* from the raw score.
C9_RepeatedAnyCharacter ==
    pc = "done" =>
        /\ has_repeated_sequence(password) <=> HasTriple(password)
        /\ HasTriple(password) =>
              /\ HasRemark("Contains repeated characters")
              /\ frame.raw = length_points(password) + variety_points(password) - 1
                             - (IF is_keyboard_pattern(password) THEN 1 ELSE 0)
                             - (IF frame.blacklisted THEN 2 ELSE 0)

BestCase ==
    /\ Len(password) >= 16
    /\ HasLower(password) /\ HasUpper(password)
    /\ HasDigit(password) /\ HasSymbol(password)
    /\ ~has_repeated_sequence(password)
    /\ ~is_keyboard_pattern(password)
    /\ ~frame.blacklisted

\* C10 as stated: the raw score exceeds 8 for some input, so that the upper
\* clamp is what brings it back to 8.  No input scores more than one that
\* earns every point and no penalty, so the statement says that such an input
\* has a raw score above 8.
C10_RawExceedsEight ==
    (pc = "done" /\ BestCase) => frame.raw > 8

\* C10 amended: the raw score before the clamp lies between -3 and 7; it goes
\* negative for some inputs and never exceeds 8, so only the lower clamp ever
\* changes it.
C10_RawRange ==
    pc = "done" =>
        /\ frame.raw \in (0 - 3)..7
        /\ result.score = (IF frame.raw < 0 THEN 0 ELSE frame.raw)

C10_Witness ==
    /\ pc = "done"
    /\ frame.raw = 0 - 3
    /\ result.score = 0
    /\ frame.blacklisted

AllowedChars(args) ==
         LowerChars
    \cup (IF args.use_upper THEN UpperChars ELSE {})
    \cup (IF args.use_digits THEN DigitChars ELSE {})
    \cup (IF args.use_symbols
          THEN {"!","@","#","$","%","^","&","*","(",")","-","_","=",
                "+","[","]","{","}",";",":",",",".","<",">","/","?"}
          ELSE {})

\* C5: for a positive length n, any flags and any outcome of the random
\* source, generate_password returns exactly n characters, each from the
\* configured charset: lowercase always; uppercase, digits and the symbol set
\* only when their flag is set.
C5_GeneratedLengthAndCharset ==
    (pc = "returned" /\ genArgs.length > 0) =>
        /\ Len(generated) = genArgs.length
        /\ \A i \in 1..Len(generated) : generated[i] \in AllowedChars(genArgs)

C5_Witness ==
    /\ pc = "returned"
    /\ genArgs.length > 0
    /\ Len(generated) = genArgs.length
    /\ ~genArgs.use_digits
    /\ genArgs.use_symbols
    /\ generated[1] = "?"

SameAnalysis(r1, r2) ==
    /\ r1.password = r2.password
    /\ r1.length = r2.length
    /\ r1.score = r2.score
    /\ r1.entropy = r2.entropy
    /\ r1.level = r2.level
    /\ r1.remarks = r2.remarks

====
